---- MODULE Spec2Model ----
(***************************************************************************)
(* Model of the transaction list view, components/transactions/list.tsx:   *)
(* the field renderer registry (standardFieldRenderers, getFieldRenderer), *)
(* the sort state with its `ordering` token, the row selection and the     *)
(* derivation of a cell's value (renderFieldInTable).                      *)
(*                                                                         *)
(* JavaScript strings that the code takes apart (the ordering token, the   *)
(* field codes) are sequences of one-character strings; `null` of such a   *)
(* string is Null.  Display names are plain strings.                       *)
(***************************************************************************)
EXTENDS Integers, Sequences, FiniteSets, TLC

VARIABLES
    pc,            \* "init" before the first effect ran, "mounted", "unmounted"
    transactions,  \* prop: the listed transactions (their ids, in order)
    fields,        \* prop: the field definitions
    selectedIds,   \* useState<string[]>
    sorting,       \* useState<{field, direction}>
    searchParams,  \* useSearchParams(): the `ordering` token of the current URL
    nav,           \* the URL of the latest router.push
    event,         \* the handler that ran last
    rTransaction,  \* renderFieldInTable: the transaction argument
    rField,        \* renderFieldInTable: the field argument (a Field)
    rOut           \* renderFieldInTable / getFieldRenderer: the outcome

vars == <<pc, transactions, fields, selectedIds, sorting, searchParams, nav,
          event, rTransaction, rField, rOut>>

uiVars == <<pc, transactions, fields, selectedIds, sorting, searchParams, nav,
            event>>

renderVars == <<rTransaction, rField, rOut>>

----------------------------------------------------------------------------
(* Bounds *)

MaxIds == 2     \* how many transactions the data source knows

----------------------------------------------------------------------------
(* JavaScript values *)

Null == <<"null">>          \* null / undefined of a string-valued expression
NoDirection == "null"       \* null of sorting.direction
EmptyString == <<>>

Truthy(s) == s # Null /\ s # EmptyString

startsWithDash(s) == Len(s) > 0 /\ s[1] = "-"

slice1(s) == IF Len(s) = 0 THEN s ELSE Tail(s)

----------------------------------------------------------------------------
(* Field codes *)

c_name == <<"n", "a", "m", "e">>
c_merchant == <<"m", "e", "r", "c", "h", "a", "n", "t">>
c_issuedAt == <<"i", "s", "s", "u", "e", "d", "A", "t">>
c_projectCode == <<"p", "r", "o", "j", "e", "c", "t", "C", "o", "d", "e">>
c_categoryCode == <<"c", "a", "t", "e", "g", "o", "r", "y", "C", "o", "d", "e">>
c_files == <<"f", "i", "l", "e", "s">>
c_total == <<"t", "o", "t", "a", "l">>
c_convertedTotal == <<"c", "o", "n", "v", "e", "r", "t", "e", "d", "T", "o", "t", "a", "l">>
c_currencyCode == <<"c", "u", "r", "r", "e", "n", "c", "y", "C", "o", "d", "e">>
c_constructor == <<"c", "o", "n", "s", "t", "r", "u", "c", "t", "o", "r">>
c_vat == <<"v", "a", "t">>
c_note == <<"n", "o", "t", "e">>
c_toString == <<"t", "o", "S", "t", "r", "i", "n", "g">>

StandardCodes == {c_name, c_merchant, c_issuedAt, c_projectCode, c_categoryCode,
                  c_files, c_total, c_convertedTotal, c_currencyCode}

----------------------------------------------------------------------------
(* Field Renderer Registry *)

\* A FieldRenderer.  formatValue and footerValue name the function the
\* renderer carries, "none" when the property is undefined; sortable is the
\* truth value of the property (undefined is falsy); code is Null when the
\* property is undefined.
FieldRenderer(n, c, s, fmt, foot) ==
    [name |-> n, code |-> c, sortable |-> s, formatValue |-> fmt, footerValue |-> foot]

standardFieldRenderers ==
    (c_name :> FieldRenderer("Name", c_name, TRUE, "none", "none")) @@
    (c_merchant :> FieldRenderer("Merchant", c_merchant, TRUE, "none", "none")) @@
    (c_issuedAt :> FieldRenderer("Date", c_issuedAt, TRUE, "issuedAt", "none")) @@
    (c_projectCode :> FieldRenderer("Project", c_projectCode, TRUE, "projectCode", "none")) @@
    (c_categoryCode :> FieldRenderer("Category", c_categoryCode, TRUE, "categoryCode", "none")) @@
    (c_files :> FieldRenderer("Files", c_files, FALSE, "files", "none")) @@
    (c_total :> FieldRenderer("Total", c_total, TRUE, "total", "total")) @@
    (c_convertedTotal :> FieldRenderer("Converted Total", c_convertedTotal, TRUE, "convertedTotal", "none")) @@
    (c_currencyCode :> FieldRenderer("Currency", c_currencyCode, TRUE, "none", "none"))

\* standardFieldRenderers is an object literal: its prototype is
\* Object.prototype, whose members a property read by key also finds.  They are
\* functions: their `name` is the function's name and they have none of the
\* renderer's properties.
ObjectPrototype ==
    (c_constructor :> FieldRenderer("Object", Null, FALSE, "none", "none")) @@
    (c_toString :> FieldRenderer("toString", Null, FALSE, "none", "none"))

\* standardFieldRenderers[key] is truthy
hasRenderer(key) == key \in DOMAIN standardFieldRenderers \/ key \in DOMAIN ObjectPrototype

\* standardFieldRenderers[key], for a key whose read is truthy
readRenderer(key) ==
    IF key \in DOMAIN standardFieldRenderers THEN standardFieldRenderers[key]
    ELSE ObjectPrototype[key]

\* getFieldRenderer with a fallback renderer that is sortable
getFieldRenderer_sortableFallback(field) ==
    IF hasRenderer(field.code) THEN readRenderer(field.code)
    ELSE FieldRenderer(field.name, field.code, TRUE, "none", "none")

getFieldRenderer(field) ==
    IF hasRenderer(field.code) THEN readRenderer(field.code)
    ELSE FieldRenderer(field.name, field.code, FALSE, "none", "none")

----------------------------------------------------------------------------
(* Props *)

Field(c, n, visible, extra) ==
    [code |-> c, name |-> n, isVisibleInList |-> visible, isExtra |-> extra]

FieldLists ==
    { << Field(c_name, "Name", TRUE, FALSE), Field(c_issuedAt, "Date", FALSE, FALSE),
         Field(c_files, "Files", TRUE, FALSE), Field(c_vat, "VAT", TRUE, TRUE) >>,
      << Field(c_total, "Total", TRUE, FALSE), Field(c_name, "Title", TRUE, FALSE),
         Field(c_constructor, "Constructor", TRUE, TRUE), Field(c_note, "Note", TRUE, FALSE) >> }

IdNames == <<"A", "B", "C", "D">>

Ids == {IdNames[i] : i \in 1..MaxIds}

Range(s) == {s[i] : i \in DOMAIN s}

NoDup(s) == \A i, j \in DOMAIN s : i # j => s[i] # s[j]

\* the lists of transactions the data source can supply: ids are unique
TxLists == {s \in UNION {[1..n -> Ids] : n \in 0..MaxIds} : NoDup(s)}

\* the `ordering` tokens the URL can carry when the component mounts
Tokens ==
    {Null, EmptyString, <<"-">>, c_name, <<"-">> \o c_name, c_vat, <<"-">> \o c_files}

----------------------------------------------------------------------------
(* List Orchestrator *)

\* the initializer without the slice(1) of a descending token
initialSorting_noSlice(ordering) ==
    IF ~Truthy(ordering) THEN [field |-> Null, direction |-> NoDirection]
    ELSE LET isDesc == startsWithDash(ordering)
         IN [field |-> ordering, direction |-> IF isDesc THEN "desc" ELSE "asc"]

\* useState initializer of `sorting`
initialSorting(ordering) ==
    IF ~Truthy(ordering) THEN [field |-> Null, direction |-> NoDirection]
    ELSE LET isDesc == startsWithDash(ordering)
         IN [field |-> IF isDesc THEN slice1(ordering) ELSE ordering,
             direction |-> IF isDesc THEN "desc" ELSE "asc"]

\* useMemo: the visible fields, each with its renderer
visibleFields(fs) ==
    {[field |-> fs[i], renderer |-> getFieldRenderer(fs[i])] :
        i \in {j \in DOMAIN fs : fs[j].isVisibleInList}}

SelectSeq2(s, id) == SelectSeq(s, LAMBDA item : item # id)

\* the value toggleAllRows passes to setSelectedIds
toggleAllRows(sel, txs) ==
    IF Len(sel) = Len(txs) THEN <<>> ELSE txs

\* the value toggleOneRow passes to setSelectedIds
toggleOneRow(sel, id) ==
    IF id \in Range(sel) THEN SelectSeq2(sel, id) ELSE Append(sel, id)

\* handleSort that goes from descending back to ascending
handleSort_noClear(s, field) ==
    LET newDirection ==
            IF s.field = field
            THEN IF s.direction = "asc" THEN "desc" ELSE "asc"
            ELSE "asc"
    IN [field |-> IF newDirection # NoDirection THEN field ELSE Null,
        direction |-> newDirection]

\* handleSort that keeps the field only when the new direction is ascending
handleSort_dropField(s, field) ==
    LET newDirection ==
            IF s.field = field
            THEN IF s.direction = "asc" THEN "desc"
                 ELSE IF s.direction = "desc" THEN NoDirection
                 ELSE "asc"
            ELSE "asc"
    IN [field |-> IF newDirection = "asc" THEN field ELSE Null,
        direction |-> newDirection]

\* the value handleSort passes to setSorting
handleSort(s, field) ==
    LET newDirection ==
            IF s.field = field
            THEN IF s.direction = "asc" THEN "desc"
                 ELSE IF s.direction = "desc" THEN NoDirection
                 ELSE "asc"
            ELSE "asc"
    IN [field |-> IF newDirection # NoDirection THEN field ELSE Null,
        direction |-> newDirection]

\* the effect without the `-` of a descending sort
orderingParam_noDash(s) ==
    IF Truthy(s.field) /\ s.direction # NoDirection THEN s.field ELSE Null

\* the `ordering` parameter of the URL the effect on `sorting` pushes
\* (Null: the parameter is deleted)
orderingParam(s) ==
    IF Truthy(s.field) /\ s.direction # NoDirection
    THEN IF s.direction = "desc" THEN <<"-">> \o s.field ELSE s.field
    ELSE Null

ListUrl(ordering) == [path |-> "list", ordering |-> ordering, id |-> ""]
DetailUrl(id) == [path |-> "detail", ordering |-> Null, id |-> id]
NoUrl == [path |-> "none", ordering |-> Null, id |-> ""]

\* a handler that ran: its name, the column it was about, and whether it
\* called router.push
Event(op, c, push) == [op |-> op, code |-> c, push |-> push]

\* a checkbox cell without the stopPropagation
cellStopsPropagation_missing == FALSE

\* the click on a row's checkbox cell reaches the row's onClick unless the
\* cell's onClick stops it
cellStopsPropagation == TRUE

----------------------------------------------------------------------------
(* The component *)

RenderIdle ==
    /\ rTransaction = "none"
    /\ rField = "none"
    /\ rOut = [done |-> FALSE]

Init ==
    /\ pc = "init"
    /\ transactions \in TxLists
    /\ fields \in FieldLists
    /\ selectedIds = <<>>
    /\ searchParams \in Tokens
    /\ sorting = initialSorting(searchParams)
    /\ nav = NoUrl
    /\ event = Event("construct", Null, FALSE)
    /\ RenderIdle

\* the effect on [sorting], after the first render
MountEffect ==
    /\ pc = "init"
    /\ pc' = "mounted"
    /\ nav' = ListUrl(orderingParam(sorting))
    /\ event' = Event("mount", Null, TRUE)
    /\ UNCHANGED <<transactions, fields, selectedIds, sorting, searchParams>>
    /\ UNCHANGED renderVars

\* TableHead onClick, with the effect on [sorting] that the new state runs
HeaderClick(vf) ==
    /\ pc = "mounted"
    /\ IF vf.renderer.sortable
       THEN /\ sorting' = handleSort(sorting, vf.field.code)
            /\ nav' = ListUrl(orderingParam(sorting'))
            /\ event' = Event("headerClick", vf.field.code, TRUE)
       ELSE /\ UNCHANGED <<sorting, nav>>
            /\ event' = Event("headerClick", vf.field.code, FALSE)
    /\ UNCHANGED <<pc, transactions, fields, selectedIds, searchParams>>
    /\ UNCHANGED renderVars

\* header Checkbox onCheckedChange
HeaderCheckboxChange ==
    /\ pc = "mounted"
    /\ selectedIds' = toggleAllRows(selectedIds, [i \in DOMAIN transactions |-> transactions[i]])
    /\ event' = Event("toggleAll", Null, FALSE)
    /\ UNCHANGED <<pc, transactions, fields, sorting, searchParams, nav>>
    /\ UNCHANGED renderVars

\* a row's Checkbox onCheckedChange, and the click's way up to the row
RowCheckboxChange(id, checked) ==
    /\ pc = "mounted"
    /\ id \in Range(transactions)
    /\ selectedIds' = IF checked # "indeterminate" THEN toggleOneRow(selectedIds, id)
                      ELSE selectedIds
    /\ nav' = IF cellStopsPropagation THEN nav ELSE DetailUrl(id)
    /\ event' = Event(IF checked # "indeterminate" THEN "toggleOne" ELSE "indeterminate",
                      Null, ~cellStopsPropagation)
    /\ UNCHANGED <<pc, transactions, fields, sorting, searchParams>>
    /\ UNCHANGED renderVars

\* TableRow onClick
handleRowClick(id) ==
    /\ pc = "mounted"
    /\ id \in Range(transactions)
    /\ nav' = DetailUrl(id)
    /\ event' = Event("rowClick", Null, TRUE)
    /\ UNCHANGED <<pc, transactions, fields, selectedIds, sorting, searchParams>>
    /\ UNCHANGED renderVars

\* BulkActionsMenu onActionComplete; the menu is there while rows are selected
BulkActionComplete ==
    /\ pc = "mounted"
    /\ Len(selectedIds) > 0
    /\ selectedIds' = <<>>
    /\ event' = Event("actionComplete", Null, FALSE)
    /\ UNCHANGED <<pc, transactions, fields, sorting, searchParams, nav>>
    /\ UNCHANGED renderVars

\* the data source supplies a new transaction list (a new `transactions` prop)
ReplaceTransactions(txs) ==
    /\ pc = "mounted"
    /\ transactions' = txs
    /\ event' = Event("newList", Null, FALSE)
    /\ UNCHANGED <<pc, fields, selectedIds, sorting, searchParams, nav>>
    /\ UNCHANGED renderVars

\* the pushed list URL is shown: useSearchParams returns its parameters
NavigationComplete ==
    /\ pc = "mounted"
    /\ nav.path = "list"
    /\ searchParams' = nav.ordering
    /\ event' = Event("navigated", Null, FALSE)
    /\ UNCHANGED <<pc, transactions, fields, selectedIds, sorting, nav>>
    /\ UNCHANGED renderVars

\* the pushed detail URL is shown: the list view is gone
LeavePage ==
    /\ pc = "mounted"
    /\ nav.path = "detail"
    /\ pc' = "unmounted"
    /\ event' = Event("unmount", Null, FALSE)
    /\ UNCHANGED <<transactions, fields, selectedIds, sorting, searchParams, nav>>
    /\ UNCHANGED renderVars

Next ==
    \/ MountEffect
    \/ \E vf \in visibleFields(fields) : HeaderClick(vf)
    \/ HeaderCheckboxChange
    \/ \E id \in Ids, checked \in {"true", "false", "indeterminate"} : RowCheckboxChange(id, checked)
    \/ \E id \in Ids : handleRowClick(id)
    \/ BulkActionComplete
    \/ \E txs \in TxLists : ReplaceTransactions(txs)
    \/ NavigationComplete
    \/ LeavePage

Spec == Init /\ [][Next]_vars

TypeOK ==
    /\ pc \in {"init", "mounted", "unmounted"}
    /\ transactions \in TxLists
    /\ fields \in FieldLists
    /\ NoDup(selectedIds)
    /\ sorting.direction \in {"asc", "desc", NoDirection}

----------------------------------------------------------------------------
(* Cell value derivation *)

\* a nullable attribute of a transaction: NoValue is null / undefined
NoValue == {}
Value(v) == {v}
Get(a) == CHOOSE v \in a : TRUE

TruthyNumber(a) == a # NoValue /\ a # Value(0)
TruthyText(a) == a # NoValue /\ a # Value("")

\* what a cell evaluates to: the children it renders, or the error it throws
Rendered(children) == [error |-> "none", display |-> children]
Thrown(e) == [error |-> e, display |-> <<>>]

\* a number or null as a child: null renders nothing
NumberChild(a) == IF a = NoValue THEN <<>> ELSE <<ToString(Get(a))>>

\* the transactions a cell is derived from; project and category are the
\* records the data source joins on projectCode and categoryCode
RenderTransactions ==
    {t \in [name : {"Coffee"},
            merchant : {"Cafe"},
            issuedAt : {Value("2024-01-31")},
            total : {NoValue, Value(0), Value(100)},
            currencyCode : {NoValue, Value("USD")},
            convertedTotal : {NoValue, Value(90)},
            convertedCurrencyCode : {NoValue, Value("EUR")},
            projectCode : {NoValue, Value("p1")},
            project : {NoValue, Value("Project 1")},
            categoryCode : {NoValue, Value("c1")},
            category : {NoValue, Value("Category 1")},
            files : {NoValue, Value(<<>>), Value(<<"f1">>)},
            extra : {NoValue, Value({}), Value({<<c_vat, "20">>})}] :
        /\ t.projectCode = NoValue => t.project = NoValue
        /\ t.categoryCode = NoValue => t.category = NoValue}

\* the fields a cell is derived for: renderFieldInTable gets visible fields
RenderFields ==
    {Field(c, "Column", TRUE, FALSE) : c \in StandardCodes \cup {c_note, c_constructor}} \cup
    {Field(c, "Extra", TRUE, TRUE) : c \in {c_vat, c_toString}}

\* renderer.formatValue(transaction), by the name of the standard renderer
formatValue(fmt, transaction) ==
    CASE fmt = "issuedAt" ->
            Rendered(IF TruthyText(transaction.issuedAt)
                     THEN <<"formatDate(issuedAt)">> ELSE <<"">>)
      [] fmt = "projectCode" ->
            Rendered(IF TruthyText(transaction.projectCode)
                     THEN <<"Badge", IF TruthyText(transaction.project)
                                     THEN Get(transaction.project) ELSE "">>
                     ELSE <<"-">>)
      [] fmt = "categoryCode" ->
            Rendered(IF TruthyText(transaction.categoryCode)
                     THEN <<"Badge", IF TruthyText(transaction.category)
                                     THEN Get(transaction.category) ELSE "">>
                     ELSE <<"-">>)
      [] fmt = "files" ->
            IF transaction.files = NoValue THEN Thrown("TypeError")
            ELSE Rendered(<<"File", ToString(Len(Get(transaction.files)))>>)
      [] fmt = "total" ->
            Rendered(
                (IF TruthyNumber(transaction.total) /\ TruthyText(transaction.currencyCode)
                 THEN <<"formatCurrency(total)">>
                 ELSE NumberChild(transaction.total))
                \o
                (IF ~TruthyNumber(transaction.convertedTotal)
                 THEN NumberChild(transaction.convertedTotal)
                 ELSE IF ~TruthyText(transaction.convertedCurrencyCode) THEN <<>>
                 ELSE IF transaction.convertedCurrencyCode # transaction.currencyCode
                 THEN <<"(formatCurrency(convertedTotal))">>
                 ELSE <<>>))
      [] fmt = "convertedTotal" ->
            Rendered(IF TruthyNumber(transaction.convertedTotal)
                        /\ TruthyText(transaction.convertedCurrencyCode)
                     THEN <<"formatCurrency(convertedTotal)">>
                     ELSE NumberChild(transaction.convertedTotal))

\* String(transaction[code]) for a column without formatter: the attribute,
\* "null" for a null one, a member of Object.prototype for a code that names
\* one, "undefined" for any other code
attributeString(transaction, c) ==
    IF c = c_name THEN transaction.name
    ELSE IF c = c_merchant THEN transaction.merchant
    ELSE IF c = c_currencyCode
    THEN IF transaction.currencyCode = NoValue THEN "null" ELSE Get(transaction.currencyCode)
    ELSE IF c \in DOMAIN ObjectPrototype THEN "function"
    ELSE "undefined"

\* transaction.extra?.[code] ?? "" as the cell's children; a member of
\* Object.prototype is a function, which renders nothing
extraValue(transaction, c) ==
    IF transaction.extra = NoValue THEN <<"">>
    ELSE LET hits == {p \in Get(transaction.extra) : p[1] = c}
         IN IF hits # {} THEN <<(CHOOSE p \in hits : TRUE)[2]>>
            ELSE IF c \in DOMAIN ObjectPrototype THEN <<>>
            ELSE <<"">>

\* field is a FieldWithRenderer
renderFieldInTable(transaction, field) ==
    IF field.field.isExtra THEN Rendered(extraValue(transaction, field.field.code))
    ELSE IF field.renderer.formatValue # "none"
    THEN formatValue(field.renderer.formatValue, transaction)
    ELSE Rendered(<<attributeString(transaction, field.field.code)>>)

NotRendered == [done |-> FALSE]

RenderInit ==
    /\ pc = "render"
    /\ transactions = <<>>
    /\ fields = <<>>
    /\ selectedIds = <<>>
    /\ searchParams = Null
    /\ sorting = initialSorting(Null)
    /\ nav = NoUrl
    /\ event = Event("construct", Null, FALSE)
    /\ rTransaction \in RenderTransactions
    /\ rField \in RenderFields
    /\ rOut = NotRendered

\* a render of the table: the field gets its renderer, the cell its value
RenderCell ==
    /\ pc = "render"
    /\ ~rOut.done
    /\ LET field == [field |-> rField, renderer |-> getFieldRenderer(rField)]
       IN rOut' = [done |-> TRUE, renderer |-> field.renderer,
                   cell |-> renderFieldInTable(rTransaction, field)]
    /\ UNCHANGED <<rTransaction, rField>>
    /\ UNCHANGED uiVars

RenderNext == RenderCell

RenderSpec == RenderInit /\ [][RenderNext]_vars

----------------------------------------------------------------------------
(* Claims *)

\* the columns the spec calls sortable: the standard ones but `files`
SortableCodes == StandardCodes \ {c_files}

Unsorted == [field |-> Null, direction |-> NoDirection]

\* C1: a sort trigger on a sortable column c makes the state (c, ascending)
\* when the current field is not c, (c, descending) when the state is
\* (c, ascending), and unsorted when the state is (c, descending).
C1_SortCycle ==
    [][event'.op = "headerClick" =>
       \A vf \in visibleFields(fields) :
          (vf.field.code \in SortableCodes /\ HeaderClick(vf)) =>
              LET c == vf.field.code
              IN /\ sorting.field # c => sorting' = [field |-> c, direction |-> "asc"]
                 /\ sorting = [field |-> c, direction |-> "asc"]
                        => sorting' = [field |-> c, direction |-> "desc"]
                 /\ sorting = [field |-> c, direction |-> "desc"] => sorting' = Unsorted]_vars

\* a trigger on `name` has just taken (name, descending) to unsorted
C1_Witness ==
    /\ event = Event("headerClick", c_name, TRUE)
    /\ sorting = Unsorted
    /\ nav = ListUrl(Null)

\* C2: toggle-all clears the selection exactly when every listed identifier
\* is selected, and otherwise makes it the set of the listed identifiers.
C2_ToggleAll ==
    [][HeaderCheckboxChange =>
          Range(selectedIds') =
              IF Range(transactions) \subseteq Range(selectedIds) THEN {}
              ELSE Range(transactions)]_vars

\* C3: the selection is a subset of the identifiers of the listed
\* transactions.
C3_SelectionListed == Range(selectedIds) \subseteq Range(transactions)

\* C4: toggle-one(id) makes the selection its symmetric difference with {id}
\* and requests no navigation and no change of the sort state or the token.
C4_ToggleOne ==
    [][event'.op = "toggleOne" =>
       \A id \in Ids :
          (RowCheckboxChange(id, "true") \/ RowCheckboxChange(id, "false")) =>
              /\ Range(selectedIds') =
                     (Range(selectedIds) \ {id}) \cup ({id} \ Range(selectedIds))
              /\ ~event'.push
              /\ UNCHANGED <<nav, sorting, searchParams>>]_vars

\* a toggle-one has just selected a second row
C4_Witness ==
    /\ event.op = "toggleOne"
    /\ Len(selectedIds) = 2
    /\ Range(selectedIds) \subseteq Range(transactions)

\* the token the spec gives a sort state
TokenOf(s) ==
    IF s.direction = "asc" THEN s.field
    ELSE IF s.direction = "desc" THEN <<"-">> \o s.field
    ELSE Null

\* C5: every change of the sort state comes with a router.push of the list
\* URL whose `ordering` is the token of the new state, so the latest request
\* of a sort trigger carries the token of the current state.
C5_SortPushesToken ==
    [][/\ sorting' # sorting => event'.push /\ nav' = ListUrl(TokenOf(sorting'))
       /\ (event'.op = "headerClick" /\ event'.push) => nav' = ListUrl(TokenOf(sorting'))]_vars

\* a trigger has just made the state (total, descending)
C5_Witness ==
    /\ event = Event("headerClick", c_total, TRUE)
    /\ sorting = [field |-> c_total, direction |-> "desc"]
    /\ nav = ListUrl(<<"-">> \o c_total)

\* the tokens of the query parameter contract: absent, a field code, a field
\* code after `-`
FieldCodes == StandardCodes \cup {c_vat, c_note, c_constructor, c_toString}

ContractTokens == {Null} \cup FieldCodes \cup {<<"-">> \o c : c \in FieldCodes}

\* C6: the first effect pushes the token the sort state was parsed from.
C6_TokenRoundTrip ==
    (event.op = "mount" /\ searchParams \in ContractTokens) => nav = ListUrl(searchParams)

\* mounted on a descending token
C6_Witness ==
    /\ event.op = "mount"
    /\ searchParams = <<"-">> \o c_name
    /\ sorting = [field |-> c_name, direction |-> "desc"]
    /\ nav = ListUrl(<<"-">> \o c_name)

C8_NonSortableIgnored ==
    [][event'.op = "headerClick" =>
       \A vf \in visibleFields(fields) :
          (vf.field.code \notin SortableCodes /\ HeaderClick(vf)) =>
              /\ UNCHANGED <<sorting, selectedIds, searchParams, nav>>
              /\ ~event'.push]_vars

\* the header of `files` was clicked while a row was selected
C8_Witness ==
    /\ event = Event("headerClick", c_files, FALSE)
    /\ sorting.direction = "asc"
    /\ selectedIds # <<>>

\* C9: for a field whose code is not a standard code getFieldRenderer
\* returns a renderer with the field's name and code, not sortable, without
\* formatter and footer aggregator; for a standard code it returns that
\* code's preconfigured renderer.
C9_Registry ==
    rOut.done =>
        IF rField.code \in StandardCodes
        THEN rOut.renderer = standardFieldRenderers[rField.code]
        ELSE rOut.renderer = [name |-> rField.name, code |-> rField.code, sortable |-> FALSE,
                              formatValue |-> "none", footerValue |-> "none"]

\* the columns of optional attributes, and the absence of the attribute or of
\* what it is shown with
OptionalCodes == {c_total, c_convertedTotal, c_projectCode, c_categoryCode, c_files}

AttributeAbsent(t, c) ==
    CASE c = c_total -> t.total = NoValue \/ t.currencyCode = NoValue
      [] c = c_convertedTotal -> t.convertedTotal = NoValue \/ t.convertedCurrencyCode = NoValue
      [] c = c_projectCode -> t.projectCode = NoValue \/ t.project = NoValue
      [] c = c_categoryCode -> t.categoryCode = NoValue \/ t.category = NoValue
      [] c = c_files -> t.files = NoValue

\* C10: the cell of a non-extra column of an optional attribute, for a
\* transaction without that attribute, evaluates without an error.
C10_NoErrorOnAbsent ==
    (/\ rOut.done
     /\ ~rField.isExtra
     /\ rField.code \in OptionalCodes
     /\ AttributeAbsent(rTransaction, rField.code)) => rOut.cell.error = "none"

====
